---------------------------- MODULE Spec2Model ----------------------------
(***************************************************************************)
(* Gesture-to-control pipeline of the fractal visualiser: the tracking     *)
(* callback (gesture classifier), the render loop (cooldown gate, control  *)
(* smoother, preset sequencer, navigation state) and the pointer handlers. *)
(*                                                                         *)
(* The repository holds four revisions of the render loop; each is a build *)
(* of this model:                                                          *)
(*   "FVa"  src/components/FractalVis.tsx, effect at lines 215-411         *)
(*   "FVb"  src/components/FractalVis.tsx, loop at lines 412-689           *)
(*   "P1"   src/unnamed/part_001                                           *)
(*   "P2"   src/unnamed/part_002                                           *)
(*                                                                         *)
(* Units.  Time is counted in ticks of 1/60 s.  Every real quantity (mode  *)
(* value, zoom, pan, strengths, landmark coordinates) is a fixed-point     *)
(* integer with three decimals (1.0 is Scale).  evolutionTime is kept in   *)
(* units of 1/300 s, so that "dt * 0.2" is exactly the tick count.         *)
(***************************************************************************)
EXTENDS Integers, Sequences, FiniteSets, TLC

\* ------------------------------------------------------------------ bounds
\* Model clock horizon of the gate / navigation / mode specifications (ticks).
MaxTime == 72
\* Model clock horizon of the palette specification: room for five snaps.
MaxPaletteTime == 126
\* Longest raw frame interval the clock reports in SpecMode (ticks): a stall.
MaxStall == 30
\* Frames of a held clap explored by SpecHeld.
MaxHeldFrames == 130
\* Frames explored by SpecNav.
MaxNavFrames == 2
\* Wheel notches explored by SpecNav.
MaxWheel == 1
\* Frames explored by SpecForce and by SpecMode.
MaxForceFrames == 2
MaxModeFrames == 2
\* frames rendered while the hand is still shown, then frames at rest
MaxGripFrames == 2
MaxRestFrames == 25
\* video-frame loops and camera requests alive at once; frames per session
MaxLoops == 2
MaxMediaFrames == 1
MaxConfigFrames == 2
\* palette evaluations recorded, and frames rendered between them
MaxPaints == 2
MaxPaintFrames == 3
MaxSmoothFrames == 3
MaxHapticFrames == 4

\* ------------------------------------------------------- program constants
\* Math.min(clock.getDelta(), 0.1): 0.1 s in ticks.
MaxDt == 6
\* phys.clapCooldown = 0.8 (FVb) and 1.0 (P1), in ticks.
ClapCooldownFVb == 48
ClapCooldownP1 == 60
\* phys.snapCooldown = 0.4 (FVb) and 0.5 (P1), in ticks.
SnapCooldownFVb == 24
SnapCooldownP1 == 30
\* (u.uColorMode.value + 1) % 5
PaletteCount == 5
\* agreement of two fixed-point results, in thousandths
SmoothTol == 20

Scale == 10 * 10 * 10
TickHz == 6 * 10

Builds == {"FVa", "FVb", "P1", "P2"}
FractalModes == {"3D", "2D", "MANDELBROT", "TRICORN", "BURNING_SHIP",
                 "MENGER_SPONGE", "SIERPINSKI"}
Presets == {"NONE", "MANDELBROT_DIVE", "JULIA_MORPH", "UNIVERSE_TOUR",
            "GEOMETRIC_PATTERNS", "COLOR_SYMPHONY", "INFINITY_ZOOM"}

\* ------------------------------------------------------------- arithmetic
Min(a, b) == IF a <= b THEN a ELSE b
Max(a, b) == IF a >= b THEN a ELSE b
Abs(a) == IF a >= 0 THEN a ELSE -a
Sign(a) == IF a > 0 THEN 1 ELSE IF a < 0 THEN -1 ELSE 0
\* Quotient rounded toward zero (JavaScript number arithmetic, 3 decimals kept).
Quot(a, b) == IF a >= 0 THEN a \div b ELSE -((-a) \div b)
\* a * b / Scale for a fixed-point a and a fixed-point factor b, without
\* leaving 32 bits: a is split into its whole and fractional part.
Mul(a, b) ==
  LET s == Sign(a) * Sign(b)
      x == Abs(a)
      y == Abs(b)
  IN  s * ((x \div Scale) * y + ((x % Scale) * y) \div Scale)
CeilDiv(a, b) == (a + b - 1) \div b

\* Math.sqrt on fixed-point squares: the integer square root, by Newton's
\* iteration from above (x is never below the root).
RECURSIVE SqrtNewton(_, _)
SqrtNewton(n, x) ==
  LET y == (x + n \div x) \div 2
  IN  IF y >= x THEN x ELSE SqrtNewton(n, y)
ISqrt(n) == IF n = 0 THEN 0 ELSE SqrtNewton(n, Max(Scale \div 2, n \div (Scale \div 2)))

\* Math.exp(-k/60) in thousandths, k = lambda * dt in (1/s * ticks), k <= 60.
ExpNegTable ==
  << 1000, 983, 967, 951, 936, 920, 905, 890, 875, 861, 846, 832, 819, 805,
     792, 779, 766, 753, 741, 729, 717, 705, 693, 682, 670, 659, 648, 638,
     627, 617, 607, 597, 587, 577, 567, 558, 549, 540, 531, 522, 513, 505,
     497, 488, 480, 472, 465, 457, 449, 442, 435, 427, 420, 413, 407, 400,
     393, 387, 380, 374, 368 >>
ExpNeg(k) == ExpNegTable[Min(k, Len(ExpNegTable) - 1) + 1]

\* THREE.MathUtils.lerp(x, y, t) = (1 - t) * x + t * y, t in thousandths.
Lerp(x, y, t) == x + Mul(y - x, t)
\* 1 - Math.exp(-lambda * dt)
DampFactor(lambda, dt) == Scale - ExpNeg(lambda * dt)
\* const damp = (current, target, lambda, dt) => lerp(current, target, 1 - exp(-lambda*dt))
Damp(current, target, lambda, dt) == Lerp(current, target, DampFactor(lambda, dt))
\* part_002: const lerp = (start, end, t) => start * (1 - t) + end * t
LerpP2(start, end, t) == start + Mul(end - start, t)


\* ---------------------------------------------------------- landmark frames
\* A landmark: normalized image coordinates and depth, in thousandths.
Pt(px, py, pz) == [x |-> px, y |-> py, z |-> pz]
\* Distances index/middle/ring/pinky tip to wrist that a hand of the input
\* grid takes: curled, half open, extended.
TipReach == {150, 280, 420}
ThumbPlaces == {"atIndex", "atMiddle", "away"}
\* One hand of the tracker's output: the landmarks the code reads (0 wrist,
\* 4/8/12/16/20 thumb..pinky tips, 5/9/17 knuckles), built from the wrist
\* position w, the four tip reaches and the place of the thumb tip.
MkHand(w, dIdx, dMid, dRing, dPinky, thumb) ==
  LET idx  == Pt(w.x - 30, w.y - dIdx, w.z - 20)
      mid  == Pt(w.x - 10, w.y - dMid, w.z - 20)
      ring == Pt(w.x + 10, w.y - dRing, w.z - 20)
      pky  == Pt(w.x + 30, w.y - dPinky, w.z - 20)
      thb  == CASE thumb = "atIndex"  -> Pt(idx.x - 10, idx.y + 10, w.z - 20)
                [] thumb = "atMiddle" -> Pt(mid.x - 10, mid.y + 10, w.z - 20)
                [] OTHER              -> Pt(w.x - 200, w.y - 100, w.z - 20)
  IN  (0 :> w) @@ (4 :> thb)
      @@ (5 :> Pt(w.x - 90, w.y - 120, w.z - 10)) @@ (8 :> idx)
      @@ (9 :> Pt(w.x - 10, w.y - 130, w.z - 10)) @@ (12 :> mid)
      @@ (16 :> ring)
      @@ (17 :> Pt(w.x + 90, w.y - 110, w.z - 10)) @@ (20 :> pky)

WristLow  == Pt(500, 800, 0)
WristHigh == Pt(500, 500, 0)
WristDeep == Pt(500, 800, -150)
\* Second-hand wrists: within clap range, within smash range only, far away.
WristClap  == Pt(550, 800, 0)
WristSmash == Pt(620, 800, 0)
WristFar   == Pt(900, 800, 0)

PoseNeutral(w)  == MkHand(w, 280, 280, 280, 280, "away")
PoseFist(w)     == MkHand(w, 150, 150, 150, 150, "away")
PosePalm(w)     == MkHand(w, 420, 420, 420, 420, "away")
PosePinch(w)    == MkHand(w, 280, 280, 280, 280, "atIndex")
PoseSnap(w)     == MkHand(w, 420, 280, 280, 280, "atMiddle")
PoseVictory(w)  == MkHand(w, 420, 420, 150, 150, "away")

\* results.multiHandLandmarks: a sequence of 0..2 hands.
NoHands == << >>

\* ------------------------------------------------------------------- state
VARIABLES
  build,              \* which revision of the component runs
  p,                  \* propsRef.current (the configuration surface)
  interactionMode,    \* React state: the interaction sub-mode
  interactionModeRef, \* the ref the render loop reads
  syncPending,        \* a render with the sync effect is scheduled
  nav,                \* navRef.current: zoom / pan targets, drag state
  g,                  \* gesturesRef.current (GestureState)
  phys,               \* physicsRef.current (cooldowns, previous values)
  quadU,              \* uniforms of the quad material (visual mode)
  partU,              \* uniforms of the particle material (interactive mode)
  uMode,              \* u.uMode.value published to the active material
  uTime,              \* u.uTime.value published to the active material
  loop,               \* locals of the render-loop closure
  clock,              \* THREE.Clock: ticks elapsed at the last getDelta()
  dt,                 \* the frame interval used by the last frame
  haptics,            \* triggerHaptic calls made by the last frame
  landmarks,          \* the landmark frame of the last tracking callback
  prevLandmarks,      \* the landmark frame of the callback before it
  frameCount,         \* frames rendered so far
  clapFires,          \* clap actions fired so far
  media,              \* camera stream, tracker submissions, video-frame loop
  kernel,             \* one run of the particle vertex shader: inputs, output
  paint,              \* getPalette evaluations made so far: inputs, uniforms, colour
  seen                \* what the previous render frame read: hand tracked, gestures

vars == << build, p, interactionMode, interactionModeRef, syncPending, nav, g,
           phys, quadU, partU, uMode, uTime, loop, clock, dt, haptics,
           landmarks, prevLandmarks, frameCount, clapFires, media, kernel,
           paint, seen >>

\* useRef<HandGestures>({...}) of each revision.
InitGestures ==
  [ indexTip |-> [x |-> 0, y |-> 0], handsCount |-> 0, isVisible |-> FALSE,
    isPinching |-> FALSE, isPalmOpen |-> FALSE, isFist |-> FALSE,
    isVictory |-> FALSE, isSnapping |-> FALSE, isClapping |-> FALSE,
    isPunching |-> FALSE, isTwoHandSmash |-> FALSE, isStopped |-> FALSE,
    gestureName |-> "Searching..." ]

InitPhysics ==
  [ prevWristZ |-> 0, clapCooldown |-> 0, snapCooldown |-> 0,
    lastHandPos |-> [x |-> 0, y |-> 0],
    wasFist |-> FALSE, wasPunching |-> FALSE, wasVictory |-> FALSE,
    wasSmash |-> FALSE ]

InitNav == [ zoom |-> Scale, pan |-> [x |-> 0, y |-> 0], isDragging |-> FALSE,
             lastMouse |-> [x |-> 0, y |-> 0] ]

InitQuadU == [ uZoom |-> Scale, uPan |-> [x |-> 0, y |-> 0], uColorMode |-> 0,
               uPower |-> 8 * Scale, uMaxIter |-> 100 ]
InitPartU(b) ==
  [ uZoom |-> Scale, uPan |-> [x |-> 0, y |-> 0], uColorMode |-> 0,
    uPower |-> 8 * Scale, uMaxIter |-> IF b = "P2" THEN 20 ELSE 0,
    uAttractStrength |-> 0, uRepelStrength |-> 0, uVisualMode |-> 0 ]

InitLoop == [ currentModeVal |-> 0, targetMode |-> 0, evolutionTime |-> 0,
              animPhase |-> 0 ]

\* The <video> element, the pending promises and the scheduled callbacks of
\* the MediaPipe effect: nothing requested, nothing attached, nothing scheduled.
InitMedia ==
  [ effectSeen |-> FALSE,  \* interactiveMode as the last effect run saw it
    gum |-> 0,             \* getUserMedia promises not yet settled
    stream |-> FALSE,      \* videoRef.current.srcObject is a live stream
    meta |-> FALSE,        \* onloadedmetadata set and not yet fired
    scheduled |-> 0,       \* processVideoFrame callbacks queued with rAF
    refLive |-> FALSE,     \* videoRequestRef.current names a queued callback
    sending |-> 0,         \* hands.send promises not yet settled
    lastSend |-> "none",   \* how the last settled hands.send ended
    failed |-> FALSE ]     \* getUserMedia rejected since the last effect run

\* No vertex has been shaded yet.
InitKernel ==
  [ seed |-> [x |-> 0, y |-> 0, z |-> 0], mode |-> 0, cap |-> 0, ran |-> FALSE,
    family |-> "none",
    out |-> [ z |-> [x |-> 0, y |-> 0], iter |-> 0, steps |-> 0, limit |-> 0,
              finite |-> TRUE ] ]

\* No frame has been rendered yet.
InitSeen ==
  [ tracked |-> FALSE, fist |-> FALSE, punch |-> FALSE, victory |-> FALSE,
    smash |-> FALSE ]

\* The props the component is mounted with (App's state at that moment).
AppProps(m, inter, anim, color, sens) ==
  [ mode |-> m, interactiveMode |-> inter, activeAnimation |-> anim,
    colorMode |-> color, attractionSensitivity |-> sens,
    iterations |-> 128, power |-> 8 * Scale ]

\* The state after construction of build b mounted with props pr.
Mounted(b, pr) ==
  /\ build = b
  /\ p = pr
  /\ interactionMode = "OBJECT_ORBIT"
  /\ interactionModeRef = "OBJECT_ORBIT"
  /\ syncPending = FALSE
  /\ nav = InitNav
  /\ g = InitGestures
  /\ phys = InitPhysics
  /\ quadU = InitQuadU
  /\ partU = InitPartU(b)
  /\ uMode = 0
  /\ uTime = 0
  /\ loop = InitLoop
  /\ clock = 0
  /\ dt = 0
  /\ haptics = {}
  /\ landmarks = NoHands
  /\ prevLandmarks = NoHands
  /\ frameCount = 0
  /\ clapFires = 0
  /\ media = InitMedia
  /\ kernel = InitKernel
  /\ paint = << >>
  /\ seen = InitSeen


\* ------------------------------------------------------ gesture classifier
\* const dist = (p1, p2) => Math.sqrt((p1.x - p2.x) ** 2 + (p1.y - p2.y) ** 2)
Dist(p1, p2) == ISqrt((p1.x - p2.x) * (p1.x - p2.x) + (p1.y - p2.y) * (p1.y - p2.y))
\* const mapX = (x) => (x - 0.5) * 4.0;  const mapY = (y) => (y - 0.5) * -4.0
MapX(x) == (x - Scale \div 2) * 4
MapY(y) == (y - Scale \div 2) * (-4)
\* [8,12,16,20].forEach(i => tipSum += dist(h[i], h[0])): four times avgTipDist.
TipSum(h) == Dist(h[8], h[0]) + Dist(h[12], h[0]) + Dist(h[16], h[0]) + Dist(h[20], h[0])

\* hands.onResults, the single-hand rules (part_001 and FractalVis.tsx):
\* pinchDist < 0.05;  avgTipDist < 0.25;  !fist && !pinching && avgTipDist > 0.4
IsPinching(h) == Dist(h[4], h[8]) < 50
IsFist(tipSum) == tipSum < 4 * 250
IsPalmOpen(fist, pinching, tipSum) == ~fist /\ ~pinching /\ tipSum > 4 * 400
\* indexDist > 0.4 && middleDist > 0.4 && ringDist < 0.3 && pinkyDist < 0.3
IsVictoryP1(h) ==
  /\ Dist(h[8], h[0]) > 400
  /\ Dist(h[12], h[0]) > 400
  /\ Dist(h[16], h[0]) < 300
  /\ Dist(h[20], h[0]) < 300
\* middleThumbDist < 0.04 && dist(h1[8], h1[0]) > 0.4
IsSnappingP1(h) == Dist(h[12], h[4]) < 40 /\ Dist(h[8], h[0]) > 400
\* punchVelocity = Math.abs(currentZ - prevWristZ); isPunching = velocity > 0.1 && isFist
IsPunchingP1(h, prevWristZ, fist) == Abs(h[0].z - prevWristZ) > 100 /\ fist
\* part_001, two hands: clap and two-hand smash.
IsClappingP1(lm) == Len(lm) = 2 /\ Dist(lm[1][0], lm[2][0]) < 100
IsTwoHandSmashP1(lm, fist) ==
  /\ Len(lm) = 2
  /\ fist
  /\ IsFist(TipSum(lm[2]))
  /\ Dist(lm[1][0], lm[2][0]) < 150
\* components/FractalVis.tsx, hands.onResults: the reduced rules.
\* g.isVictory = middle > 0.4 && avg < 0.3;  g.isSnapping = snapDist < 0.04
IsVictoryFV(h, tipSum) == Dist(h[12], h[0]) > 400 /\ tipSum < 4 * 300
IsSnappingFV(h) == Dist(h[12], h[4]) < 40

GestureNameP1(s) ==
  IF s.isClapping THEN "CLAP (MODE SWITCH)"
  ELSE IF s.isTwoHandSmash THEN "SMASH (RESET)"
  ELSE IF s.isSnapping THEN "SNAP (COLOR)"
  ELSE IF s.isVictory THEN "VICTORY (FREEZE)"
  ELSE IF s.isPunching THEN "PUNCH (ZOOM)"
  ELSE IF s.isFist THEN "FIST (GRAB)"
  ELSE IF s.isPinching THEN "PINCH (DRAG)"
  ELSE IF s.isPalmOpen THEN "PALM (HOVER)"
  ELSE "TRACKING..."

GestureNameFV(s) ==
  IF s.isSnapping THEN "SNAP"
  ELSE IF s.isFist THEN "FIST"
  ELSE IF s.isPalmOpen THEN "PALM"
  ELSE IF s.isPinching THEN "PINCH"
  ELSE "TRACKING..."

\* part_001 lines 554-656: GestureState after the callback for frame lm.
GesturesP1(old, lm, prevWristZ) ==
  IF Len(lm) = 0
  THEN [old EXCEPT !.handsCount = 0, !.gestureName = "NO HANDS"]
  ELSE LET h1 == lm[1]
           tipSum == TipSum(h1)
           pinching == IsPinching(h1)
           fist == IsFist(tipSum)
           s  == [old EXCEPT
                    !.handsCount = Len(lm),
                    !.indexTip = [x |-> MapX(h1[8].x), y |-> MapY(h1[8].y)],
                    !.isPinching = pinching,
                    !.isFist = fist,
                    !.isPalmOpen = IsPalmOpen(fist, pinching, tipSum),
                    !.isVictory = IsVictoryP1(h1),
                    !.isPunching = IsPunchingP1(h1, prevWristZ, fist),
                    !.isClapping = IsClappingP1(lm),
                    !.isTwoHandSmash = IsTwoHandSmashP1(lm, fist),
                    !.isSnapping = IsSnappingP1(h1)]
       IN  [s EXCEPT !.gestureName = GestureNameP1(s)]

\* components/FractalVis.tsx lines 610-657.
GesturesFV(old, lm) ==
  IF Len(lm) = 0
  THEN [old EXCEPT !.handsCount = 0, !.gestureName = "NO HANDS"]
  ELSE LET h1 == lm[1]
           tipSum == TipSum(h1)
           pinching == IsPinching(h1)
           fist == IsFist(tipSum)
           s  == [old EXCEPT
                    !.handsCount = Len(lm),
                    !.indexTip = [x |-> MapX(h1[8].x), y |-> MapY(h1[8].y)],
                    !.isPinching = pinching,
                    !.isFist = fist,
                    !.isPalmOpen = IsPalmOpen(fist, pinching, tipSum),
                    !.isVictory = IsVictoryFV(h1, tipSum),
                    !.isSnapping = IsSnappingFV(h1)]
       IN  [s EXCEPT !.gestureName = GestureNameFV(s)]

\* hands.onResults(results): the tracking callback, for the landmark frame lm.
HandsCallback(lm) ==
  /\ g' = IF build = "P1" THEN GesturesP1(g, lm, phys.prevWristZ)
          ELSE GesturesFV(g, lm)
  /\ phys' = IF build = "P1" /\ Len(lm) > 0
             THEN [phys EXCEPT !.prevWristZ = lm[1][0].z]
             ELSE phys
  /\ landmarks' = lm
  /\ UNCHANGED << build, p, interactionMode, interactionModeRef, syncPending,
                  nav, quadU, partU, uMode, uTime, loop, clock, dt, haptics,
                  frameCount, clapFires, kernel, paint, seen >>

\* The tracker answers the frames sent while interactive mode is on.
OnResultsBody(lm) ==
  /\ build \in {"FVa", "FVb", "P1"}
  /\ p.interactiveMode
  /\ HandsCallback(lm)
  /\ UNCHANGED media

OnResults(lm) == OnResultsBody(lm) /\ UNCHANGED prevLandmarks


\* ------------------------------------------------------------- render loop
ClapReadyIgnoringTimer(s, ph) == s.isClapping
\* if (g.isClapping && phys.clapCooldown <= 0)
ClapReady(s, ph) == s.isClapping /\ ph.clapCooldown <= 0
\* if (g.isSnapping && phys.snapCooldown <= 0)
SnapReady(s, ph) == s.isSnapping /\ ph.snapCooldown <= 0
\* phys.clapCooldown = 0.8 (FVb) / 1.0 (P1);  phys.snapCooldown = 0.4 / 0.5
ClapCooldown(b) == IF b = "P1" THEN ClapCooldownP1 ELSE ClapCooldownFVb
SnapCooldown(b) == IF b = "P1" THEN SnapCooldownP1 ELSE SnapCooldownFVb
CooldownStepTwice(cd, d) == IF cd > 0 THEN cd - 2 * d ELSE cd
\* if (phys.clapCooldown > 0) phys.clapCooldown -= dt
CooldownStep(cd, d) == IF cd > 0 THEN cd - d ELSE cd
NextPaletteNoWrap(c) == c + 1
\* u.uColorMode.value = (u.uColorMode.value + 1) % 5
NextPalette(c) == (c + 1) % PaletteCount
OtherModeOneWay(m) == "IMMERSIVE_FLY"
\* mode === OBJECT_ORBIT ? IMMERSIVE_FLY : OBJECT_ORBIT
OtherMode(m) == IF m = "OBJECT_ORBIT" THEN "IMMERSIVE_FLY" ELSE "OBJECT_ORBIT"
\* if (p.interactiveMode && g.handsCount > 0)
GestureGate == p.interactiveMode /\ g.handsCount > 0

\* The target mode of the manual path, per revision.
TargetModeFVa(m) ==
  CASE m = "2D" -> 1 * Scale
    [] m = "MANDELBROT" -> 2 * Scale
    [] m = "TRICORN" -> 3 * Scale
    [] m = "BURNING_SHIP" -> 4 * Scale
    [] OTHER -> 2 * Scale
TargetModeFVb(m) ==
  CASE m = "2D" -> 1 * Scale
    [] m = "MANDELBROT" -> 2 * Scale
    [] m = "TRICORN" -> 3 * Scale
    [] m = "BURNING_SHIP" -> 4 * Scale
    [] m = "3D" -> 0
    [] m = "MENGER_SPONGE" -> 5 * Scale
    [] OTHER -> 6 * Scale
TargetModeP1(m, old) ==
  CASE m = "2D" -> 1 * Scale
    [] m = "MANDELBROT" -> 2 * Scale
    [] m = "TRICORN" -> 3 * Scale
    [] m = "BURNING_SHIP" -> 4 * Scale
    [] m = "3D" -> 0
    [] m = "MENGER_SPONGE" -> 5 * Scale
    [] m = "SIERPINSKI" -> 6 * Scale
    [] OTHER -> old
TargetModeP2(m) ==
  CASE m = "2D" -> 1 * Scale
    [] m = "MANDELBROT" -> 2 * Scale
    [] m = "TRICORN" -> 3 * Scale
    [] m = "BURNING_SHIP" -> 4 * Scale
    [] m = "MENGER_SPONGE" -> 5 * Scale
    [] m = "SIERPINSKI" -> 6 * Scale
    [] OTHER -> 0

\* Math.pow(1.8, animPhase), animPhase in ticks: 1.8^(1/60) = 1.00985 per tick.
RECURSIVE Pow18(_)
Pow18(k) == IF k <= 0 THEN Scale ELSE (Pow18(k - 1) * 100985) \div 100000

\* u.uPan.value.lerp(v, t): component-wise lerp of a Vector2.
LerpVec(a, b, t) == [x |-> Lerp(a.x, b.x, t), y |-> Lerp(a.y, b.y, t)]
\* The uniforms of the active material:  u = p.interactiveMode ? partU : quadU
ActiveU == IF p.interactiveMode THEN partU ELSE quadU
DivePan == [x |-> -744, y |-> 132]

\* part_001 lines 498-504: smash > fist > pinch > hover.
AttractTargetP1(s) ==
  IF s.isTwoHandSmash THEN 0 ELSE IF s.isFist THEN 3 * Scale
  ELSE IF s.isPinching THEN Scale ELSE 0
RepelTargetP1(s) ==
  IF s.isTwoHandSmash THEN 10 * Scale
  ELSE IF s.isFist \/ s.isPinching THEN 0 ELSE Scale \div 2
\* FractalVis.tsx lines 486-487:
\*   attract = g.isFist ? 3.0 : g.isPinching ? 1.2 : 0;  repel = g.isPalmOpen ? 0.8 : 0
AttractTargetFVb(s) ==
  IF s.isFist THEN 3 * Scale ELSE IF s.isPinching THEN 1200 ELSE 0
RepelTargetFVb(s) == IF s.isPalmOpen THEN 800 ELSE 0

\* part_001 lines 330-527: one frame with clamped interval d (ticks).
FrameP1(d) ==
  LET mode == interactionModeRef
      u0 == ActiveU
      gate == GestureGate
      clap == gate /\ ClapReady(g, phys)
      cd1 == IF clap THEN ClapCooldown("P1") ELSE phys.clapCooldown
      cd2 == IF gate THEN CooldownStep(cd1, d) ELSE cd1
      snap == gate /\ SnapReady(g, phys)
      sd1 == IF snap THEN SnapCooldown("P1") ELSE phys.snapCooldown
      sd2 == IF gate THEN CooldownStep(sd1, d) ELSE sd1
      color1 == IF snap THEN NextPalette(u0.uColorMode) ELSE u0.uColorMode
      punch == gate /\ g.isPunching
      smash == gate /\ g.isTwoHandSmash
      victory == gate /\ g.isVictory
      \* 3. punch: zoom *= (1 + dt * 3.0);  4. smash: zoom = 1, pan = (0,0)
      z1 == IF punch THEN Mul(nav.zoom, Scale + 50 * d) ELSE nav.zoom
      z2 == IF smash THEN Scale ELSE z1
      pan2 == IF smash THEN [x |-> 0, y |-> 0] ELSE nav.pan
      dx == g.indexTip.x - phys.lastHandPos.x
      dy == g.indexTip.y - phys.lastHandPos.y
      \* navigation logic, read with the sub-mode taken at the top of the frame
      z3 == IF ~gate THEN z2
            ELSE IF mode = "OBJECT_ORBIT"
                 THEN IF ~g.isFist /\ g.isPinching
                      THEN Mul(z2, Scale + Quot(dy * 3, 2)) ELSE z2
                 ELSE IF g.isFist THEN Mul(z2, Scale + Quot(800 * d, TickHz))
                      ELSE z2
      pan3 == IF ~gate THEN pan2
              ELSE IF mode = "OBJECT_ORBIT"
                   THEN IF g.isFist
                        THEN [x |-> pan2.x + Quot(dx * 5, 2),
                              y |-> pan2.y - Quot(dy * 5, 2)]
                        ELSE pan2
                   ELSE IF ~g.isFist /\ g.isPalmOpen
                        THEN [x |-> pan2.x + Quot(g.indexTip.x * 8 * d, 10 * TickHz),
                              y |-> pan2.y + Quot(g.indexTip.y * 8 * d, 10 * TickHz)]
                        ELSE pan2
      hap == (IF clap THEN {"clap"} ELSE {})
             \cup (IF snap THEN {"snap"} ELSE {})
             \cup (IF punch /\ ~phys.wasPunching THEN {"punch"} ELSE {})
             \cup (IF smash /\ ~phys.wasSmash THEN {"smash"} ELSE {})
             \cup (IF victory /\ ~phys.wasVictory THEN {"victory"} ELSE {})
             \cup (IF gate /\ g.isFist /\ ~phys.wasFist THEN {"fist"} ELSE {})
      phys1 == IF gate
               THEN [phys EXCEPT !.clapCooldown = cd2, !.snapCooldown = sd2,
                                 !.wasFist = g.isFist,
                                 !.wasPunching = g.isPunching,
                                 !.wasVictory = g.isVictory,
                                 !.wasSmash = g.isTwoHandSmash,
                                 !.lastHandPos = g.indexTip]
               ELSE [phys EXCEPT !.wasFist = FALSE, !.wasPunching = FALSE]
      preset == p.activeAnimation # "NONE"
      phase1 == IF preset THEN loop.animPhase + d ELSE loop.animPhase
      z4 == IF p.activeAnimation = "MANDELBROT_DIVE" THEN Pow18(phase1) ELSE z3
      pan4 == IF p.activeAnimation = "MANDELBROT_DIVE" THEN DivePan ELSE pan3
      target1 == CASE p.activeAnimation = "NONE" ->
                        TargetModeP1(p.mode, loop.targetMode)
                   [] p.activeAnimation = "MANDELBROT_DIVE" -> 2 * Scale
                   [] p.activeAnimation = "JULIA_MORPH" -> 1 * Scale
                   [] OTHER -> ((phase1 \div (5 * TickHz)) % 7) * Scale
      uZoom1 == IF preset THEN z4 ELSE Damp(u0.uZoom, z4, 10, d)
      uPan1 == IF preset THEN LerpVec(u0.uPan, pan4, 100)
               ELSE LerpVec(u0.uPan, pan4, DampFactor(10, d))
      attract == AttractTargetP1(g)
      repel == RepelTargetP1(g)
      rep0 == IF smash THEN 5 * Scale ELSE partU.uRepelStrength
      forces == ~preset /\ gate
      u1 == [u0 EXCEPT !.uColorMode = color1, !.uZoom = uZoom1, !.uPan = uPan1,
                       !.uPower = IF preset THEN @ ELSE p.power,
                       !.uMaxIter = IF ~preset /\ ~p.interactiveMode
                                    THEN p.iterations ELSE @]
      part1 == IF p.interactiveMode
               THEN [u1 EXCEPT
                      !.uAttractStrength =
                         IF forces
                         THEN Damp(@, Mul(attract, p.attractionSensitivity), 8, d)
                         ELSE @,
                      !.uRepelStrength =
                         IF forces
                         THEN Damp(rep0, Mul(repel, p.attractionSensitivity), 8, d)
                         ELSE rep0]
               ELSE partU
      time1 == loop.evolutionTime - (IF victory THEN 5 * d ELSE 0) + d
      cur1 == Damp(loop.currentModeVal, target1, 5, d)
  IN  [ phys |-> phys1,
        nav |-> [nav EXCEPT !.zoom = z4, !.pan = pan4],
        quadU |-> IF p.interactiveMode THEN quadU ELSE u1,
        partU |-> part1,
        uMode |-> cur1,
        uTime |-> time1,
        loop |-> [currentModeVal |-> cur1, targetMode |-> target1,
                  evolutionTime |-> time1, animPhase |-> phase1],
        setMode |-> IF clap THEN OtherMode(mode) ELSE interactionMode,
        haptics |-> hap ]

\* components/FractalVis.tsx lines 419-578: one frame, clamped interval d.
FrameFVb(d) ==
  LET mode == interactionModeRef
      u0 == ActiveU
      gate == GestureGate
      clap == gate /\ ClapReady(g, phys)
      cd1 == IF clap THEN ClapCooldown("FVb") ELSE phys.clapCooldown
      cd2 == IF gate THEN CooldownStep(cd1, d) ELSE cd1
      snap == gate /\ SnapReady(g, phys)
      sd1 == IF snap THEN SnapCooldown("FVb") ELSE phys.snapCooldown
      sd2 == IF gate THEN CooldownStep(sd1, d) ELSE sd1
      color1 == IF snap THEN NextPalette(u0.uColorMode) ELSE u0.uColorMode
      attract == AttractTargetFVb(g)
      repel == RepelTargetFVb(g)
      dx == g.indexTip.x - phys.lastHandPos.x
      dy == g.indexTip.y - phys.lastHandPos.y
      pan1 == IF ~gate THEN nav.pan
              ELSE IF mode = "OBJECT_ORBIT"
                   THEN IF g.isFist
                        THEN [x |-> nav.pan.x + Quot(dx * 14, 10),
                              y |-> nav.pan.y - Quot(dy * 14, 10)]
                        ELSE nav.pan
                   ELSE IF g.isPalmOpen
                        THEN [x |-> nav.pan.x + Quot(g.indexTip.x * d, 2 * TickHz),
                              y |-> nav.pan.y + Quot(g.indexTip.y * d, 2 * TickHz)]
                        ELSE nav.pan
      phys1 == IF gate
               THEN [phys EXCEPT !.clapCooldown = cd2, !.snapCooldown = sd2,
                                 !.lastHandPos = g.indexTip]
               ELSE phys
      preset == p.activeAnimation # "NONE"
      phase1 == IF preset THEN loop.animPhase + d ELSE loop.animPhase
      dive == p.activeAnimation = "MANDELBROT_DIVE"
      z1 == IF dive THEN Mul(nav.zoom, 1015) ELSE nav.zoom
      pan2 == IF dive THEN DivePan ELSE pan1
      target1 == CASE p.activeAnimation = "NONE" -> TargetModeFVb(p.mode)
                   [] dive -> 2 * Scale
                   [] p.activeAnimation = "JULIA_MORPH" -> 1 * Scale
                   [] OTHER -> loop.targetMode
      u1 == [u0 EXCEPT !.uColorMode = color1,
                       !.uZoom = Damp(@, z1, 8, d),
                       !.uPan = LerpVec(@, pan2, DampFactor(8, d)),
                       !.uMaxIter = IF ~preset /\ ~p.interactiveMode
                                    THEN p.iterations ELSE @]
      part1 == IF p.interactiveMode
               THEN [u1 EXCEPT
                      !.uAttractStrength =
                         IF gate
                         THEN Damp(@, Mul(attract, p.attractionSensitivity), 10, d)
                         ELSE @,
                      !.uRepelStrength =
                         IF gate
                         THEN Damp(@, Mul(repel, p.attractionSensitivity), 10, d)
                         ELSE @]
               ELSE partU
      time1 == loop.evolutionTime + d
      cur1 == Damp(loop.currentModeVal, target1, 6, d)
  IN  [ phys |-> phys1,
        nav |-> [nav EXCEPT !.zoom = z1, !.pan = pan2],
        quadU |-> IF p.interactiveMode THEN quadU ELSE u1,
        partU |-> part1,
        uMode |-> cur1,
        uTime |-> time1,
        loop |-> [currentModeVal |-> cur1, targetMode |-> target1,
                  evolutionTime |-> time1, animPhase |-> phase1],
        setMode |-> IF clap THEN OtherMode(mode) ELSE interactionMode,
        haptics |-> (IF clap THEN {"clap"} ELSE {})
                    \cup (IF snap THEN {"snap"} ELSE {}) ]

\* components/FractalVis.tsx lines 331-403: one frame, clamped interval d.
FrameFVa(d) ==
  LET u0 == ActiveU
      time1 == loop.evolutionTime + d
      target1 == TargetModeFVa(p.mode)
      cur1 == Damp(loop.currentModeVal, target1, 5, d)
      u1 == [u0 EXCEPT !.uPower = p.power,
                       !.uColorMode = p.colorMode,
                       !.uZoom = Damp(@, nav.zoom, 8, d),
                       !.uPan = LerpVec(@, nav.pan, DampFactor(10, d))]
  IN  [ phys |-> phys,
        nav |-> nav,
        quadU |-> IF p.interactiveMode THEN quadU
                  ELSE [u1 EXCEPT !.uMaxIter = p.iterations],
        partU |-> IF p.interactiveMode THEN u1 ELSE partU,
        uMode |-> cur1,
        uTime |-> time1,
        loop |-> [loop EXCEPT !.currentModeVal = cur1, !.targetMode = target1,
                              !.evolutionTime = time1],
        setMode |-> interactionMode,
        haptics |-> {} ]

\* part_002 line 448: u.uMode.value += (targetMode - u.uMode.value) * dt * 3.0
ModeStepP2(m, target, d) == m + Mul(target - m, 50 * d)

\* part_002 lines 348-469: one frame; the interval d is the raw clock delta.
FrameP2(d) ==
  LET anim == p.activeAnimation
      preset == anim # "NONE"
      phase1 == IF preset THEN loop.animPhase + d ELSE loop.animPhase
      zi == Mul(nav.zoom, 1010)
      z1 == CASE anim = "MANDELBROT_DIVE" ->
                   Mul(nav.zoom, Scale + Quot(500 * d, TickHz))
              [] anim = "JULIA_MORPH" -> 1200
              [] anim = "INFINITY_ZOOM" -> IF zi > 1000 * Scale THEN Scale ELSE zi
              [] OTHER -> nav.zoom
      pan1 == CASE anim = "MANDELBROT_DIVE" ->
                     [x |-> LerpP2(nav.pan.x, -745, Quot(100 * d, TickHz)),
                      y |-> LerpP2(nav.pan.y, 186, Quot(100 * d, TickHz))]
                [] anim = "JULIA_MORPH" -> [x |-> 0, y |-> 0]
                [] OTHER -> nav.pan
      target1 == CASE anim = "NONE" -> TargetModeP2(p.mode)
                   [] anim \in {"MANDELBROT_DIVE", "INFINITY_ZOOM"} -> 2 * Scale
                   [] anim = "JULIA_MORPH" -> 1 * Scale
                   [] anim = "UNIVERSE_TOUR" ->
                        ((phase1 \div (5 * TickHz)) % 7) * Scale
                   [] anim = "COLOR_SYMPHONY" -> loop.currentModeVal
                   [] OTHER -> loop.targetMode
      time1 == loop.evolutionTime
               + (IF anim = "COLOR_SYMPHONY" THEN 25 * d ELSE 0)
               + (IF ~preset /\ p.interactiveMode /\ ~g.isStopped
                  THEN 5 * d ELSE 0)
      hand == ~preset /\ p.interactiveMode
      att == IF g.isPinching \/ g.isStopped THEN 0 ELSE Scale
      rep == IF g.isStopped THEN Scale ELSE 0
      mode1 == ModeStepP2(uMode, target1, d)
      u1 == [partU EXCEPT
               !.uMaxIter = IF anim = "MANDELBROT_DIVE" THEN 100
                            ELSE IF preset THEN @ ELSE p.iterations,
               !.uPower = IF preset THEN @ ELSE p.power,
               !.uColorMode = IF preset THEN @ ELSE p.colorMode,
               !.uAttractStrength =
                  IF ~hand THEN @
                  ELSE IF g.isVisible
                       THEN LerpP2(@, Mul(att, p.attractionSensitivity), 100)
                       ELSE Mul(@, 950),
               !.uRepelStrength =
                  IF hand /\ g.isVisible
                  THEN LerpP2(@, Mul(rep, p.attractionSensitivity), 100)
                  ELSE @,
               !.uVisualMode = IF hand THEN 0 ELSE Scale,
               !.uZoom = z1,
               !.uPan = pan1]
  IN  [ phys |-> phys,
        nav |-> [nav EXCEPT !.zoom = z1, !.pan = pan1],
        quadU |-> quadU,
        partU |-> u1,
        uMode |-> mode1,
        uTime |-> time1,
        loop |-> [loop EXCEPT !.targetMode = target1, !.evolutionTime = time1,
                              !.animPhase = phase1],
        setMode |-> interactionMode,
        haptics |-> {} ]

\* const dt = Math.min(clock.getDelta(), 0.1)   (part_002: clock.getDelta())
FrameDt(b, raw) == IF b = "P2" THEN raw ELSE Min(raw, MaxDt)

Frame(b, d) ==
  CASE b = "P1" -> FrameP1(d)
    [] b = "FVb" -> FrameFVb(d)
    [] b = "FVa" -> FrameFVa(d)
    [] OTHER -> FrameP2(d)

\* requestAnimationFrame(animate): one frame, raw ticks after the last one.
\* React commits a scheduled state update (and runs its effects) before the
\* browser delivers the next animation frame.
Animate(raw) ==
  LET d == FrameDt(build, raw)
      f == Frame(build, d)
  IN  /\ ~syncPending
      /\ phys' = f.phys
      /\ nav' = f.nav
      /\ quadU' = f.quadU
      /\ partU' = f.partU
      /\ uMode' = f.uMode
      /\ uTime' = f.uTime
      /\ loop' = f.loop
      /\ interactionMode' = f.setMode
      /\ syncPending' = (build = "P1" /\ f.setMode # interactionMode)
      /\ haptics' = f.haptics
      /\ clock' = clock + raw
      /\ dt' = d
      /\ frameCount' = frameCount + 1
      /\ clapFires' = clapFires + (IF "clap" \in f.haptics THEN 1 ELSE 0)
      /\ seen' = [ tracked |-> GestureGate,
                    fist |-> GestureGate /\ g.isFist,
                    punch |-> GestureGate /\ g.isPunching,
                    victory |-> GestureGate /\ g.isVictory,
                    smash |-> GestureGate /\ g.isTwoHandSmash ]
      /\ UNCHANGED << build, p, interactionModeRef, g, landmarks,
                      prevLandmarks, media, kernel, paint >>

\* part_001 lines 149-150:
\*   useEffect(() => { interactionModeRef.current = interactionMode; }, [interactionMode])
SyncEffect ==
  /\ syncPending
  /\ interactionModeRef' = interactionMode
  /\ syncPending' = FALSE
  /\ UNCHANGED << build, p, interactionMode, nav, g, phys, quadU, partU, uMode,
                  uTime, loop, clock, dt, haptics, landmarks, prevLandmarks,
                  frameCount, clapFires, media, kernel,
                  paint, seen >>


\* --------------------------------------------------- configuration surface
\* App.tsx: the state setters wired to FractalVis' props; the propsRef effect
\* (part_001 lines 145-147) copies the new props before the next frame.
PropsUnchanged ==
  UNCHANGED << build, interactionMode, interactionModeRef, syncPending, nav, g,
               phys, quadU, partU, uMode, uTime, loop, clock, dt, haptics,
               landmarks, prevLandmarks, frameCount, clapFires, media, kernel,
                  paint, seen >>
\* onClick={() => { setMode(m); setFractalDropdownOpen(false); }}
SetMode(m) ==
  /\ m # p.mode
  /\ p' = [p EXCEPT !.mode = m]
  /\ PropsUnchanged
\* onClick={() => setIsInteractive(!isInteractive)}
ToggleInteractive ==
  /\ p' = [p EXCEPT !.interactiveMode = ~@]
  /\ PropsUnchanged
\* const playAnimation = (preset) => { setActiveAnimation(preset); ... }
PlayAnimation(a) ==
  /\ a # "NONE"
  /\ a # p.activeAnimation
  /\ p' = [p EXCEPT !.activeAnimation = a]
  /\ PropsUnchanged
\* onClick={() => setActiveAnimation('NONE')}
StopAnimation ==
  /\ p.activeAnimation # "NONE"
  /\ p' = [p EXCEPT !.activeAnimation = "NONE"]
  /\ PropsUnchanged
\* onClick={() => setColorMode(scheme.id)}, scheme ids 0..4
SetColorMode(c) ==
  /\ c # p.colorMode
  /\ p' = [p EXCEPT !.colorMode = c]
  /\ PropsUnchanged
\* <input type="range" min="0" max="3" step="0.1" ... setAttractionSens(...)>
SetAttractionSens(v) ==
  /\ v # p.attractionSensitivity
  /\ p' = [p EXCEPT !.attractionSensitivity = v]
  /\ PropsUnchanged
\* <input type="range" min="10" max="500" ... setIterations(parseInt(...))>
SetIterations(n) ==
  /\ n # p.iterations
  /\ p' = [p EXCEPT !.iterations = n]
  /\ PropsUnchanged
\* <input type="range" min="2" max="16" step="0.1" ... setPower(parseFloat(...))>
SetPower(v) ==
  /\ v # p.power
  /\ p' = [p EXCEPT !.power = v]
  /\ PropsUnchanged

\* -------------------------------------------------------- pointer handlers
NavUnchanged ==
  UNCHANGED << build, p, interactionMode, interactionModeRef, syncPending, g,
               phys, quadU, partU, uMode, uTime, loop, clock, dt, haptics,
               landmarks, prevLandmarks, frameCount, clapFires, media, kernel,
                  paint, seen >>
\* handleWheel / onWheel: sign is Math.sign(e.deltaY).
WheelZoom(b, zoom, sign) ==
  IF b = "P2"
  THEN Max(100, Min(Mul(zoom, Scale - sign * 50), 10000 * Scale))
  ELSE LET newZoom == Mul(zoom, Scale - sign * 150)
           top == IF b = "P1" THEN 100000 * Scale ELSE 50000 * Scale
       IN  IF newZoom * 10 > 1 /\ newZoom < top THEN newZoom ELSE zoom
HandleWheel(sign) ==
  /\ nav' = [nav EXCEPT !.zoom = WheelZoom(build, nav.zoom, sign)]
  /\ NavUnchanged
\* handleMouseDown at client position (mx, my)
HandleMouseDown(mx, my) ==
  /\ ~nav.isDragging
  /\ nav' = [nav EXCEPT !.isDragging = TRUE, !.lastMouse = [x |-> mx, y |-> my]]
  /\ NavUnchanged
\* const panSpeed = 0.003 / zoom (0.005 in part_002); pan.x -= dx * panSpeed
PanSpeedNum(b) == IF b = "P2" THEN 5 ELSE 3
\* A zero zoom makes panSpeed infinite: outside the fixed-point range.
HandleMouseMove(mx, my) ==
  /\ nav.isDragging
  /\ nav.zoom # 0
  /\ LET dx == mx - nav.lastMouse.x
         dy == my - nav.lastMouse.y
     IN  nav' = [nav EXCEPT
                   !.pan = [x |-> @.x - Quot(dx * PanSpeedNum(build) * Scale, nav.zoom),
                            y |-> @.y + Quot(dy * PanSpeedNum(build) * Scale, nav.zoom)],
                   !.lastMouse = [x |-> mx, y |-> my]]
  /\ NavUnchanged
HandleMouseUp ==
  /\ nav.isDragging
  /\ nav' = [nav EXCEPT !.isDragging = FALSE]
  /\ NavUnchanged

\* ----------------------------------------------------------- MediaPipe effect
MediaUnchanged ==
  UNCHANGED << build, p, interactionMode, interactionModeRef, syncPending, nav,
               g, phys, quadU, partU, uMode, uTime, loop, clock, dt, haptics,
               landmarks, prevLandmarks, frameCount, clapFires, kernel, paint, seen >>
\* videoRequestRef.current = requestAnimationFrame(processVideoFrame)
ScheduleFrame(m) == [m EXCEPT !.scheduled = @ + 1, !.refLive = TRUE]
\* cancelAnimationFrame(videoRequestRef.current): only the callback the ref
\* names, if it is still queued.
CancelFrame(m) ==
  IF m.refLive THEN [m EXCEPT !.scheduled = @ - 1, !.refLive = FALSE] ELSE m
\* videoRef.current.readyState >= 2: a stream is attached and has loaded.
VideoReady(m) == m.stream /\ ~m.meta
\* processVideoFrame / processFrame, in the closure of an effect run that saw
\* interactiveMode = true (the only runs that define it): submit the frame
\* and wait, or queue the next tick at once.
ProcessVideoFrame(m, ready) ==
  IF ready THEN [m EXCEPT !.sending = @ + 1] ELSE ScheduleFrame(m)
\* useEffect(..., [interactiveMode]): the cleanup of the previous run, then
\* the release branch or hands setup and startCamera().
MediaEffect ==
  /\ media.effectSeen # p.interactiveMode
  /\ LET m1 == IF media.effectSeen THEN CancelFrame(media) ELSE media
         m2 == [m1 EXCEPT !.effectSeen = p.interactiveMode, !.failed = FALSE]
     IN  media' = IF p.interactiveMode
                  THEN [m2 EXCEPT !.gum = @ + 1]
                  ELSE [m2 EXCEPT !.stream = FALSE, !.meta = FALSE]
  /\ MediaUnchanged
\* startCamera, after await getUserMedia: srcObject = stream, onloadedmetadata set.
GetUserMediaResolved ==
  /\ media.gum > 0
  /\ media' = [media EXCEPT !.gum = @ - 1, !.stream = TRUE, !.meta = TRUE]
  /\ MediaUnchanged
\* startCamera, catch (e): console.warn
GetUserMediaRejected ==
  /\ media.gum > 0
  /\ media' = [media EXCEPT !.gum = @ - 1, !.failed = TRUE]
  /\ MediaUnchanged
\* onloadedmetadata: play(); processVideoFrame()  (readyState is 1 or more)
LoadedMetadata(ready) ==
  /\ media.stream /\ media.meta
  /\ media' = ProcessVideoFrame([media EXCEPT !.meta = FALSE], ready)
  /\ MediaUnchanged
\* A queued processVideoFrame runs: the one videoRequestRef names or another.
VideoFrame(viaRef) ==
  /\ media.scheduled > 0
  /\ IF viaRef THEN media.refLive
     ELSE media.scheduled > (IF media.refLive THEN 1 ELSE 0)
  /\ LET m1 == [media EXCEPT !.scheduled = @ - 1,
                             !.refLive = IF viaRef THEN FALSE ELSE @]
     IN  media' = ProcessVideoFrame(m1, VideoReady(m1))
  /\ MediaUnchanged
\* await hands.send(...) fulfilled: onResults has run with the frame lm; the
\* loop goes on with requestAnimationFrame.
SendResolved(lm) ==
  /\ media.sending > 0
  /\ HandsCallback(lm)
  /\ media' = ScheduleFrame([media EXCEPT !.sending = @ - 1, !.lastSend = "ok"])
  /\ UNCHANGED prevLandmarks
\* await hands.send(...) rejected: part_001 catches and goes on; in
\* FractalVis.tsx the rejection leaves processFrame before line 683.
SendRejected ==
  /\ media.sending > 0
  /\ LET m1 == [media EXCEPT !.sending = @ - 1, !.lastSend = "failed"]
     IN  media' = IF build = "P1" THEN ScheduleFrame(m1) ELSE m1
  /\ MediaUnchanged

\* ------------------------------------------------ cooldown-gate behaviours
\* The two revisions with a gesture gate, interactive mode on, hands coming
\* and going, claps and snaps held or released, the user toggling
\* interactive mode; frames arrive at a steady cadence of 1..MaxDt ticks.
GatePoses ==
  { NoHands,
    << PoseSnap(WristLow) >>,
    << PoseNeutral(WristLow), PoseNeutral(WristClap) >> }
InitGate ==
  \E b \in {"FVb", "P1"} :
    Mounted(b, AppProps("3D", TRUE, "NONE", 0, Scale))
Cadences == {MaxDt - 1, MaxDt}
Steady(raw) == (dt = 0 \/ raw = dt) /\ clock + raw <= MaxTime
NextGate ==
  \/ \E raw \in Cadences : Steady(raw) /\ Animate(raw)
  \/ SyncEffect
  \/ \E lm \in GatePoses : lm # landmarks /\ OnResults(lm)
  \/ ToggleInteractive
SpecGate == InitGate /\ [][NextGate]_vars

\* A render frame is the only step that advances the clock.
IsFrame == clock' # clock
ClapFired == IsFrame /\ "clap" \in haptics'
SnapFired == IsFrame /\ "snap" \in haptics'
\* The palette id the visible material shows (part_002 has one material).
PublishedPalette == IF build = "P2" THEN partU.uColorMode ELSE ActiveU.uColorMode

\* C1: the clap action (sub-mode toggle) and the snap action (palette
\* advance) happen on a frame only if the gesture's boolean is true and its
\* own cooldown timer is <= 0 when the frame starts; the firing frame leaves
\* the timer at its fixed positive duration less that frame's dt, which is
\* positive; no sub-mode toggle or palette advance happens without a firing.
C1_FireOnlyWhenReady ==
  [][ IsFrame =>
        /\ ClapFired =>
             /\ g.isClapping /\ phys.clapCooldown <= 0
             /\ ClapCooldown(build) > 0
             /\ phys'.clapCooldown = ClapCooldown(build) - dt'
             /\ phys'.clapCooldown > 0
        /\ SnapFired =>
             /\ g.isSnapping /\ phys.snapCooldown <= 0
             /\ SnapCooldown(build) > 0
             /\ phys'.snapCooldown = SnapCooldown(build) - dt'
             /\ phys'.snapCooldown > 0
        /\ interactionMode' # interactionMode => ClapFired
        /\ PublishedPalette' # PublishedPalette => SnapFired ]_vars
\* C1 witness: a held snap has fired, waited out its cooldown and fired again.
C1_Witness ==
  /\ "snap" \in haptics
  /\ g.isSnapping
  /\ PublishedPalette = 2
  /\ phys.snapCooldown > 0

\* C3 (as stated): every frame decrements a running cooldown timer by dt,
\* whatever the interactive flag and the hand presence.
C3_DecrementEveryFrame ==
  [][ IsFrame =>
        /\ phys.clapCooldown > 0 => phys'.clapCooldown = phys.clapCooldown - dt'
        /\ phys.snapCooldown > 0 => phys'.snapCooldown = phys.snapCooldown - dt' ]_vars

SubModeOf(n) == IF n % 2 = 0 THEN "OBJECT_ORBIT" ELSE "IMMERSIVE_FLY"
\* C4: every fired clap switches the sub-mode to the other one; at every
\* frame the loop reads the sub-mode in force (the ref follows the state
\* before the next frame), which after n fired claps is the initial one iff
\* n is even; nothing but a fired clap changes the sub-mode.
C4_ClapSwitchesSubMode ==
  /\ [](~syncPending => /\ interactionModeRef = interactionMode
                        /\ interactionModeRef = SubModeOf(clapFires))
  /\ [][ /\ ClapFired =>
              /\ interactionMode' # interactionMode
              /\ interactionMode' \in {"OBJECT_ORBIT", "IMMERSIVE_FLY"}
         /\ interactionMode' # interactionMode => ClapFired
         /\ interactionModeRef' # interactionModeRef =>
              interactionModeRef' = interactionMode ]_vars
\* C4 witness: two claps fired, the loop reads the first sub-mode again.
C4_Witness ==
  /\ clapFires = 2
  /\ ~syncPending
  /\ interactionModeRef = "OBJECT_ORBIT"
  /\ "clap" \notin haptics


\* ------------------------------------------------------ held-clap behaviours
\* Two hands with wrists in clap range are tracked before the first frame and
\* stay; frames arrive at a constant cadence of 1..MaxDt ticks.
ClapFrame == << PoseNeutral(WristLow), PoseNeutral(WristClap) >>
InitHeld ==
  \E b \in {"FVb", "P1"} :
    Mounted(b, AppProps("3D", TRUE, "NONE", 0, Scale))
NextHeld ==
  \/ landmarks = NoHands /\ OnResults(ClapFrame)
  \/ \E raw \in 1..MaxDt :
       /\ landmarks # NoHands
       /\ dt = 0 \/ raw = dt
       /\ frameCount < MaxHeldFrames
       /\ Animate(raw)
  \/ SyncEffect
SpecHeld == InitHeld /\ [][NextHeld]_vars

PalettePoses == { NoHands, << PoseSnap(WristLow) >> }
InitPalette ==
  \E b \in Builds : Mounted(b, AppProps("3D", TRUE, "NONE", 0, Scale))
NextPaletteStep ==
  \/ clock + MaxDt <= MaxPaletteTime /\ Animate(MaxDt)
  \/ \E lm \in PalettePoses : lm # landmarks /\ OnResults(lm)
  \/ \E c \in 0..(PaletteCount - 1) : SetColorMode(c)
  \/ ToggleInteractive
SpecPalette == InitPalette /\ [][NextPaletteStep]_vars

\* C6: the published palette id is always one of 0..4, and a fired snap
\* replaces the published id c by (c + 1) mod 5.
C6_PaletteInRange ==
  /\ [](PublishedPalette \in {0, 1, 2, 3, 4})
  /\ [][SnapFired => PublishedPalette' = (PublishedPalette + 1) % 5]_vars
\* C6 witness: the fifth snap in a row has fired and the id is 0 again.
C6_Witness ==
  /\ "snap" \in haptics
  /\ p.interactiveMode
  /\ PublishedPalette = 0
  /\ phys.snapCooldown = SnapCooldown(build) - dt


\* ------------------------------------------------------ navigation behaviours
\* part_001: wheel and one drag on the canvas, the dive preset, then a
\* pinching hand moving up and down, fists (still, punching, two-handed
\* smash) and claps.
NavPoses ==
  { NoHands,
    << PosePinch(WristHigh) >>,
    << PosePinch(WristLow) >>,
    << PoseFist(WristLow) >>,
    << PoseFist(WristDeep) >>,
    << PoseFist(WristLow), PoseFist(WristSmash) >>,
    ClapFrame }
MousePlaces == { [x |-> 0, y |-> 0], [x |-> 100, y |-> 50] }
InitNavSpec == Mounted("P1", AppProps("MANDELBROT", TRUE, "NONE", 0, Scale))
\* The zoom targets that at most k wheel notches reach from 1.0.
RECURSIVE WheelReach(_, _)
WheelReach(b, k) ==
  IF k = 0 THEN {Scale}
  ELSE LET r == WheelReach(b, k - 1)
       IN  r \cup { WheelZoom(b, z, sign) : z \in r, sign \in {-1, 1} }
\* The user sets the view up with the pointer and the panels before a hand
\* is shown to the camera.
Setup == frameCount = 0 /\ landmarks = NoHands
NextNav ==
  \/ frameCount < MaxNavFrames /\ Animate(MaxDt)
  \/ SyncEffect
  \/ \E lm \in NavPoses : lm # landmarks /\ OnResults(lm)
  \/ \E sign \in {-1, 1} :
       Setup /\ nav.zoom \in WheelReach(build, MaxWheel - 1) /\ HandleWheel(sign)
  \/ \E m \in MousePlaces :
       Setup /\ nav.pan = InitNav.pan /\ HandleMouseDown(m.x, m.y)
  \/ \E m \in MousePlaces : Setup /\ m # nav.lastMouse /\ HandleMouseMove(m.x, m.y)
  \/ Setup /\ HandleMouseUp
  \/ Setup /\ PlayAnimation("MANDELBROT_DIVE")
  \/ Setup /\ StopAnimation
SpecNav == InitNavSpec /\ [][NextNav]_vars

\* C5 (as stated): whatever the wheel events, drags, gesture frames and
\* preset frames, the zoom target is strictly positive and inside the fixed
\* range the wheel handler keeps (below 100000).
C5_ZoomPositiveBounded == nav.zoom > 0 /\ nav.zoom < 100000 * Scale

\* C14 (as stated): on every frame rendered while a preset is active, even
\* with interactive mode on and hands tracked, the palette id, the
\* interaction sub-mode, the cooldown timers and the force strengths do not
\* change, and the zoom / pan targets change only as the preset drives them
\* (the dive preset; the other presets of these revisions leave them alone).
C14_PresetDisablesGestures ==
  [][ (IsFrame /\ p.activeAnimation # "NONE") =>
        /\ PublishedPalette' = PublishedPalette
        /\ interactionMode' = interactionMode
        /\ phys'.clapCooldown = phys.clapCooldown
        /\ phys'.snapCooldown = phys.snapCooldown
        /\ partU'.uAttractStrength = partU.uAttractStrength
        /\ partU'.uRepelStrength = partU.uRepelStrength
        /\ p.activeAnimation # "MANDELBROT_DIVE" => nav' = nav ]_vars

\* C30 (as stated): a frame that reads two-hand smash as true (interactive
\* mode, hand tracked, no preset) ends with the zoom target 1 and the pan
\* target (0, 0), in either interaction sub-mode.
C30_SmashResetsView ==
  [][ (IsFrame /\ GestureGate /\ g.isTwoHandSmash /\ p.activeAnimation = "NONE") =>
        nav'.zoom = Scale /\ nav'.pan = [x |-> 0, y |-> 0] ]_vars

\* ----------------------------------------------------------- force behaviours
\* The two revisions with particle forces: the attraction slider, one hand
\* grabbing, pinching, open or relaxed, two fists smashing; frames at a steady
\* cadence.
ForcePoses ==
  { NoHands,
    << PoseFist(WristLow) >>,
    << PosePinch(WristLow) >>,
    << PosePalm(WristLow) >>,
    << PoseNeutral(WristLow) >>,
    << PoseFist(WristLow), PoseFist(WristSmash) >> }
InitForce ==
  \E b \in {"FVb", "P1"} :
    Mounted(b, AppProps("MANDELBROT", TRUE, "NONE", 0, Scale))
NextForce ==
  \/ \E raw \in Cadences :
       (dt = 0 \/ raw = dt) /\ frameCount < MaxForceFrames /\ Animate(raw)
  \/ \E lm \in ForcePoses : lm # landmarks /\ OnResults(lm)
  \/ \E v \in {Scale \div 10, Scale, 3 * Scale} : SetAttractionSens(v)
SpecForce == InitForce /\ [][NextForce]_vars

\* C8 (as stated): on every frame each smoothed value (blended mode,
\* published zoom, published pan, attraction and repulsion strength) ends
\* between its previous value and its current target, inclusive.
C8_SmoothedBetween ==
  [][ IsFrame =>
        LET Between(a, x, b) == Min(a, b) <= x /\ x <= Max(a, b)
            forces == GestureGate /\ p.activeAnimation = "NONE"
            att == IF build = "P1" THEN AttractTargetP1(g) ELSE AttractTargetFVb(g)
            rep == IF build = "P1" THEN RepelTargetP1(g) ELSE RepelTargetFVb(g)
        IN  /\ Between(uMode, uMode', loop'.targetMode)
            /\ Between(ActiveU.uZoom, ActiveU'.uZoom, nav'.zoom)
            /\ Between(ActiveU.uPan.x, ActiveU'.uPan.x, nav'.pan.x)
            /\ Between(ActiveU.uPan.y, ActiveU'.uPan.y, nav'.pan.y)
            /\ forces =>
                 /\ Between(partU.uAttractStrength, partU'.uAttractStrength,
                            Mul(att, p.attractionSensitivity))
                 /\ Between(partU.uRepelStrength, partU'.uRepelStrength,
                            Mul(rep, p.attractionSensitivity)) ]_vars

\* The force targets the next frame damps toward (its locals attract / repel).
AttractTarget == IF build = "P1" THEN AttractTargetP1(g) ELSE AttractTargetFVb(g)
RepelTarget == IF build = "P1" THEN RepelTargetP1(g) ELSE RepelTargetFVb(g)

\* C11 (as stated): after a callback with two hands, both satisfying the fist
\* rule (mean tip-to-wrist < 0.25), wrists closer than 0.15, isTwoHandSmash
\* is true, and a frame reading this state (interactive, no preset) has the
\* strong repulsion target and attraction target 0.
C11_TwoHandSmash ==
  ( /\ Len(landmarks) = 2
    /\ TipSum(landmarks[1]) < 4 * 250
    /\ TipSum(landmarks[2]) < 4 * 250
    /\ Dist(landmarks[1][0], landmarks[2][0]) < 150 )
  => /\ g.isTwoHandSmash
     /\ (p.interactiveMode /\ p.activeAnimation = "NONE")
          => (RepelTarget = 10 * Scale /\ AttractTarget = 0)

\* C12 (as stated): on a frame with a tracked hand, interactive mode on and
\* no preset, the force targets follow the first true condition of smash >
\* fist > pinch > palm-open; with none of the four both targets are 0.
C12_ForcePriority ==
  (GestureGate /\ p.activeAnimation = "NONE") =>
    LET strongRepel == 10 * Scale
        strongAttract == 3 * Scale
        weakAttract == IF build = "P1" THEN Scale ELSE 1200
        gentleRepel == IF build = "P1" THEN Scale \div 2 ELSE 800
    IN  << AttractTarget, RepelTarget >> =
          IF g.isTwoHandSmash THEN << 0, strongRepel >>
          ELSE IF g.isFist THEN << strongAttract, 0 >>
          ELSE IF g.isPinching THEN << weakAttract, 0 >>
          ELSE IF g.isPalmOpen THEN << 0, gentleRepel >>
          ELSE << 0, 0 >>

\* -------------------------------------------------------------- rest behaviours
\* A hand grabs or hovers for the first MaxGripFrames frames while the user
\* picks a mode and turns the wheel; then the tracker has reported its last
\* frame, nothing else changes, and frames keep coming at a steady cadence.
RestPoses == { NoHands, << PoseFist(WristLow) >>, << PosePalm(WristLow) >> }
InitRest ==
  \E b \in {"FVb", "P1"} :
    Mounted(b, AppProps("MANDELBROT", TRUE, "NONE", 0, Scale))
Gripping == frameCount < MaxGripFrames
NextRest ==
  \/ \E raw \in Cadences :
       /\ dt = 0 \/ raw = dt
       /\ frameCount < MaxGripFrames + MaxRestFrames
       /\ Animate(raw)
  \/ \E lm \in RestPoses : Gripping /\ lm # landmarks /\ OnResults(lm)
  \/ \E m \in {"2D", "MENGER_SPONGE"} : Gripping /\ SetMode(m)
  \/ \E sign \in {-1, 1} :
       Gripping /\ nav.zoom \in WheelReach(build, MaxWheel - 1) /\ HandleWheel(sign)
SpecRest == InitRest /\ [][NextRest]_vars

\* Render time elapsed since the targets and the tracker came to rest.
RestTicks == (frameCount - MaxGripFrames) * dt
\* The smoothed mode, zoom and pan are within 1e-3 of their targets (one
\* more thousandth allowed for the rounding of the fixed-point damp).
SmoothedSettled ==
  /\ Abs(uMode - loop.targetMode) <= 2
  /\ Abs(ActiveU.uZoom - nav.zoom) <= 2
  /\ Abs(ActiveU.uPan.x - nav.pan.x) <= 2
  /\ Abs(ActiveU.uPan.y - nav.pan.y) <= 2

\* C13 (as stated): once the tracker reports zero hands and the mode, zoom
\* and pan targets stop changing, after at least 2 s of render frames every
\* smoothed value is within 1e-3 of its target and the attraction and
\* repulsion strengths have decayed to about 0 (below 0.01).
C13_SettlesAtRest ==
  (g.handsCount = 0 /\ ~Gripping /\ RestTicks >= 2 * TickHz) =>
    /\ SmoothedSettled
    /\ partU.uAttractStrength <= 10
    /\ partU.uRepelStrength <= 10

\* ---------------------------------------------------- camera-session behaviours
\* The component mounted in visual mode; the user enters and leaves
\* interactive mode, React runs the effect before the next click; the camera
\* request, the video element, the tracker and the frame callbacks settle in
\* any order; a frame is rendered now and then and the wheel is turned.
MediaPoses == { NoHands, << PoseFist(WristLow) >> }
InitMediaSpec ==
  \E b \in {"FVb", "P1"} : Mounted(b, AppProps("MANDELBROT", FALSE, "NONE", 0, Scale))
NextMedia ==
  \/ /\ media.effectSeen = p.interactiveMode
     /\ p.interactiveMode \/ media.gum + media.scheduled + media.sending < MaxLoops
     /\ ToggleInteractive
  \/ MediaEffect
  \/ GetUserMediaResolved
  \/ GetUserMediaRejected
  \/ \E ready \in BOOLEAN : LoadedMetadata(ready)
  \/ \E viaRef \in BOOLEAN : VideoFrame(viaRef)
  \/ \E lm \in MediaPoses : SendResolved(lm)
  \/ SendRejected
  \/ frameCount < MaxMediaFrames /\ Animate(MaxDt)
  \/ \E sign \in {-1, 1} :
       nav.zoom \in WheelReach(build, MaxWheel - 1) /\ HandleWheel(sign)
SpecMedia == InitMediaSpec /\ [][NextMedia]_vars

\* Interactive mode is off, its effect has run, and no camera request, tracker
\* submission or video event is outstanding.
QuietAndOff ==
  /\ ~p.interactiveMode /\ ~media.effectSeen
  /\ media.gum = 0 /\ media.sending = 0 /\ ~media.meta

\* C15 (as stated): in every reachable state where interactive mode is off
\* and no asynchronous operation is pending, no live camera stream is
\* attached to the video element, and no video frame is submitted to the
\* tracker from there on.
C15_ReleasedWhenOff ==
  /\ [](QuietAndOff => ~media.stream)
  /\ [][QuietAndOff => media'.sending <= media.sending]_vars

\* C16 (as stated): when a tracker submission is rejected, GestureState is
\* left as it was, the frame is not submitted again, and the loop goes on:
\* the next video-frame tick is queued.
C16_FailedSendSkipped ==
  [][ (media'.sending < media.sending /\ media'.lastSend = "failed") =>
        /\ g' = g
        /\ media'.sending = media.sending - 1
        /\ media'.scheduled = media.scheduled + 1 ]_vars

\* Interactive mode was entered and the camera request of this session was
\* rejected; no stream is attached, nothing is in flight or queued.
CameraFailed ==
  /\ p.interactiveMode /\ media.effectSeen /\ media.failed
  /\ media.gum = 0 /\ ~media.stream /\ media.sending = 0 /\ media.scheduled = 0

\* C17 (as stated): after a failed camera acquisition GestureState reads as
\* zero hands, so a render frame fires no gesture action and changes neither
\* the forces, the palette nor the zoom / pan targets, also when hands were
\* tracked in an earlier interactive session; the wheel still sets the zoom.
C17_CameraFailureIdle ==
  /\ [](CameraFailed => g.handsCount = 0)
  /\ [][ (CameraFailed /\ IsFrame) =>
           /\ haptics' = {}
           /\ nav' = nav
           /\ PublishedPalette' = PublishedPalette
           /\ partU'.uAttractStrength = partU.uAttractStrength
           /\ partU'.uRepelStrength = partU.uRepelStrength ]_vars

\* C28 (as stated): at most one video-frame loop runs at any time (a loop is
\* a queued processVideoFrame callback or a submission it is waiting for),
\* and once the cleanup of an interactive session has run no further frame
\* callback is queued until the effect starts the next session.
C28_SingleFrameLoop ==
  /\ [](media.scheduled + media.sending <= 1)
  /\ [][ ~media.effectSeen => media'.scheduled <= media.scheduled ]_vars

\* ------------------------------------------------- configuration behaviours
\* All four revisions: the user moves the palette buttons and the power and
\* iteration sliders, switches interactive mode, starts and stops a preset;
\* frames are rendered in between.
InitConfig ==
  \E b \in Builds : Mounted(b, AppProps("MANDELBROT", FALSE, "NONE", 0, Scale))
NextConfig ==
  \/ frameCount < MaxConfigFrames /\ Animate(MaxDt)
  \/ \E c \in {0, 3} : SetColorMode(c)
  \/ \E n \in {10, 128, 500} : SetIterations(n)
  \/ \E v \in {2 * Scale, 8 * Scale} : SetPower(v)
  \/ ToggleInteractive
  \/ PlayAnimation("JULIA_MORPH")
  \/ StopAnimation
SpecConfig == InitConfig /\ [][NextConfig]_vars

\* The uniforms of the material on screen (part_002 has one material).
Published == IF build = "P2" THEN partU ELSE ActiveU

\* C18 (as stated): on every frame rendered with no preset active, in
\* interactive and in visual mode, the parameters published to the active
\* material carry the configured palette id, power exponent and iteration
\* cap, so a change of any of them shows on the next such frame.
C18_ConfigPublished ==
  [][ (IsFrame /\ p.activeAnimation = "NONE") =>
        /\ Published'.uColorMode = p.colorMode
        /\ Published'.uPower = p.power
        /\ Published'.uMaxIter = p.iterations ]_vars

\* ------------------------------------------------------------ mode behaviours
\* All four revisions in visual mode: the user picks fractal modes, starts
\* and stops presets; the clock reports a normal frame or a stall.
ModePresets == {"MANDELBROT_DIVE", "JULIA_MORPH", "UNIVERSE_TOUR"}
InitMode ==
  \E b \in Builds : Mounted(b, AppProps("2D", FALSE, "NONE", 0, Scale))
NextMode ==
  \/ \E raw \in {MaxDt, MaxStall} : frameCount < MaxModeFrames /\ Animate(raw)
  \/ \E m \in FractalModes : SetMode(m)
  \/ \E a \in ModePresets : PlayAnimation(a)
  \/ StopAnimation
SpecMode == InitMode /\ [][NextMode]_vars

\* C7 (as stated): the published blended mode stays in [0, 6] whatever the
\* mode selections, presets and frame intervals (a stall included).
C7_BlendedModeInRange == 0 <= uMode /\ uMode <= 6 * Scale

\* C9 (as stated): on every frame without a preset the target mode is the
\* index of the selected mode: Mandelbulb3D 0, Julia2D 1, Mandelbrot 2,
\* Tricorn 3, BurningShip 4, MengerSponge 5, Sierpinski 6.
C9_TargetIsModeIndex ==
  [][ (IsFrame /\ p.activeAnimation = "NONE") =>
        loop'.targetMode =
          Scale * (CASE p.mode = "3D" -> 0
                     [] p.mode = "2D" -> 1
                     [] p.mode = "MANDELBROT" -> 2
                     [] p.mode = "TRICORN" -> 3
                     [] p.mode = "BURNING_SHIP" -> 4
                     [] p.mode = "MENGER_SPONGE" -> 5
                     [] p.mode = "SIERPINSKI" -> 6) ]_vars

\* C26 (as stated): on every frame with the preset MANDELBROT_DIVE or
\* JULIA_MORPH active the target mode is the preset's (2, 1), whatever the
\* fractal-mode selector says.
C26_PresetSetsTarget ==
  [][ (IsFrame /\ p.activeAnimation \in {"MANDELBROT_DIVE", "JULIA_MORPH"}) =>
        loop'.targetMode =
          IF p.activeAnimation = "MANDELBROT_DIVE" THEN 2 * Scale ELSE Scale ]_vars

\* ------------------------------------------------------- classifier behaviours
\* The tracker reports any frame of the input grid after any other: one hand
\* with each finger curled, half open or extended and the thumb tip on the
\* index tip, on the middle tip or away; a fist or a relaxed hand nearer the
\* camera; two hands clapping or smashing; no hand.
HandGrid ==
  { MkHand(WristLow, i, m, rp, rp, t) :
      i \in TipReach, m \in TipReach, rp \in {150, 420}, t \in ThumbPlaces }
  \cup { PoseFist(WristDeep), PoseNeutral(WristDeep) }
ClassifyFrames ==
  { << h >> : h \in HandGrid }
  \cup { NoHands, ClapFrame, << PoseFist(WristLow), PoseFist(WristSmash) >> }
\* hands.onResults, remembering the frame of the callback before it.
Track(lm) == OnResultsBody(lm) /\ prevLandmarks' = landmarks
InitClassify ==
  \E b \in {"FVb", "P1"} : Mounted(b, AppProps("2D", TRUE, "NONE", 0, Scale))
NextClassify == \E lm \in ClassifyFrames : Track(lm)
SpecClassify == InitClassify /\ [][NextClassify]_vars

\* C10 (as stated): after a callback with at least one hand the single-hand
\* booleans equal the rule table on the first hand: pinch <=> thumb-index
\* < 0.05; fist <=> mean tip-to-wrist < 0.25; palmOpen <=> ~fist, ~pinch and
\* mean > 0.4; victory <=> index, middle > 0.4 and ring, pinky < 0.3; snap
\* <=> thumb-middle < 0.04 and index-to-wrist > 0.4; punch <=> fist and the
\* wrist depth changed by more than 0.1 since the preceding callback.
C10_RuleTable ==
  landmarks # NoHands =>
    LET h == landmarks[1]
        tips == Dist(h[8], h[0]) + Dist(h[12], h[0])
                + Dist(h[16], h[0]) + Dist(h[20], h[0])
        pinch == Dist(h[4], h[8]) < 50
        fist == tips < 4 * 250
    IN  /\ g.isPinching = pinch
        /\ g.isFist = fist
        /\ g.isPalmOpen = (~fist /\ ~pinch /\ tips > 4 * 400)
        /\ g.isVictory = /\ Dist(h[8], h[0]) > 400
                         /\ Dist(h[12], h[0]) > 400
                         /\ Dist(h[16], h[0]) < 300
                         /\ Dist(h[20], h[0]) < 300
        /\ g.isSnapping = (Dist(h[4], h[12]) < 40 /\ Dist(h[8], h[0]) > 400)
        /\ prevLandmarks # NoHands =>
             g.isPunching = (fist /\ Abs(h[0].z - prevLandmarks[1][0].z) > 100)

\* The gesture a HUD label stands for (part_001 labels carry the control in
\* brackets, FractalVis.tsx labels do not).
LabelGesture(name) ==
  CASE name \in {"CLAP (MODE SWITCH)"} -> "clap"
    [] name \in {"SMASH (RESET)"} -> "smash"
    [] name \in {"SNAP (COLOR)", "SNAP"} -> "snap"
    [] name \in {"VICTORY (FREEZE)"} -> "victory"
    [] name \in {"PUNCH (ZOOM)"} -> "punch"
    [] name \in {"FIST (GRAB)", "FIST"} -> "fist"
    [] name \in {"PINCH (DRAG)", "PINCH"} -> "pinch"
    [] name \in {"PALM (HOVER)", "PALM"} -> "palm"
    [] name = "TRACKING..." -> "tracking"
    [] OTHER -> "none"

\* C24 (as stated): after a callback with at least one hand the label is
\* that of the first true gesture in the order clap, smash, snap, victory,
\* punch, fist, pinch, palm-open, and the tracking label when none is true.
C24_LabelPriority ==
  (landmarks # NoHands) =>
    LabelGesture(g.gestureName) =
      IF g.isClapping THEN "clap"
      ELSE IF g.isTwoHandSmash THEN "smash"
      ELSE IF g.isSnapping THEN "snap"
      ELSE IF g.isVictory THEN "victory"
      ELSE IF g.isPunching THEN "punch"
      ELSE IF g.isFist THEN "fist"
      ELSE IF g.isPinching THEN "pinch"
      ELSE IF g.isPalmOpen THEN "palm"
      ELSE "tracking"

\* C25 (as stated): after a callback with zero hands the hands count is 0
\* and no gesture boolean is still true from an earlier frame.
C25_OverwrittenWholesale ==
  (landmarks = NoHands) =>
    /\ g.handsCount = 0
    /\ ~g.isPinching /\ ~g.isFist /\ ~g.isPalmOpen /\ ~g.isVictory
    /\ ~g.isSnapping /\ ~g.isPunching /\ ~g.isClapping /\ ~g.isTwoHandSmash


\* ------------------------------------------------------ particle vertex shader
\* part_000, vertexShader: the escape-time iterator and the position branch
\* of main(), in thousandths.
HardCap == 100
DefaultCap == 20
\* float loopLimit = uMaxIter > 0.0 ? uMaxIter : 20.0;
LoopLimitRaw(uMaxIter) == uMaxIter
LoopLimit(uMaxIter) == IF uMaxIter > 0 THEN uMaxIter ELSE DefaultCap
\* vec2 csqr(vec2 a) { return vec2(a.x*a.x - a.y*a.y, 2.0*a.x*a.y); }
CSqr(a) == [x |-> Mul(a.x, a.x) - Mul(a.y, a.y), y |-> 2 * Mul(a.x, a.y)]
\* dot(z, z)
Dot2(z) == Mul(z.x, z.x) + Mul(z.y, z.y)
\* uJuliaC: { value: new THREE.Vector2(-0.7, 0.27015) }
JuliaC == [x |-> -700, y |-> 270]
\* The loop body: Mandelbrot / Julia, Tricorn or Burning Ship.
IterStep(z, c, mode) ==
  LET w == IF mode < 2500 THEN z
           ELSE IF Abs(mode - 3 * Scale) < 100 THEN [x |-> z.x, y |-> -z.y]
           ELSE [x |-> Abs(z.x), y |-> Abs(z.y)]
      q == CSqr(w)
  IN  [x |-> q.x + c.x, y |-> q.y + c.y]
\* One pass through  for (float i = 0.0; i < 100.0; i++) { if (i >= loopLimit)
\* break; ...; if (dot(z, z) > 4.0) break;  iter++; }  from loop state s;
\* steps counts the bodies run.
EscapePass(s, c, mode, limit) ==
  IF s.done THEN s
  ELSE IF s.i >= HardCap \/ s.i >= limit THEN [s EXCEPT !.done = TRUE]
  ELSE LET z1 == IterStep(s.z, c, mode)
       IN  IF Dot2(z1) > 4 * Scale
           THEN [s EXCEPT !.z = z1, !.steps = @ + 1, !.done = TRUE]
           ELSE [s EXCEPT !.z = z1, !.steps = @ + 1, !.i = @ + 1, !.iter = @ + 1]
\* n passes, and the whole loop as eleven runs of ten passes (the loop has
\* left by the 101st pass).
RECURSIVE EscapeRun(_, _, _, _, _)
EscapeRun(s, c, mode, limit, n) ==
  IF n = 0 THEN s ELSE EscapeRun(EscapePass(s, c, mode, limit), c, mode, limit, n - 1)
RECURSIVE EscapeRuns(_, _, _, _, _)
EscapeRuns(s, c, mode, limit, k) ==
  IF k = 0 \/ s.done THEN s
  ELSE EscapeRuns(EscapeRun(s, c, mode, limit, 10), c, mode, limit, k - 1)
EscapeLoop(z, c, mode, limit) ==
  EscapeRuns([z |-> z, i |-> 0, iter |-> 0, steps |-> 0, done |-> FALSE],
             c, mode, limit, (HardCap \div 10) + 1)
\* vec3 IterateFractal(vec2 pos, float mode):  the result is
\* vec3(z, (iter - log2(log2(dot(z,z))) + 4.0) / loopLimit), a finite number
\* exactly when dot(z,z) > 1 (log2 of 0 or of a negative number otherwise).
IterateFractal(pos, mode, uMaxIter) ==
  LET isJulia == Abs(mode - Scale) < 100
      z0 == IF isJulia THEN pos ELSE [x |-> 0, y |-> 0]
      c == IF isJulia THEN JuliaC ELSE pos
      loopLimit == LoopLimit(uMaxIter)
      r == EscapeLoop(z0, c, mode, loopLimit)
  IN  [ z |-> r.z, iter |-> r.iter, steps |-> r.steps, limit |-> loopLimit,
        finite |-> Dot2(r.z) > Scale ]
\* void main(): for 0.5 <= mode <= 4.5 the position comes from
\* IterateFractal(originalPos.xy * 2.0 / uZoom + uPan, mode); for the other
\* modes from normalize(originalPos) scaled by a distance estimate, which is
\* a vector only if originalPos is not the zero vector.
VertexShader(seed, mode, uMaxIter, u) ==
  IF mode >= 500 /\ mode <= 4500
  THEN IterateFractal([x |-> Quot(2 * seed.x * Scale, u.uZoom) + u.uPan.x,
                       y |-> Quot(2 * seed.y * Scale, u.uZoom) + u.uPan.y],
                      mode, uMaxIter)
  ELSE [InitKernel.out EXCEPT !.finite = (seed # [x |-> 0, y |-> 0, z |-> 0])]

\* The fractal family main() and IterateFractal apply for a mode value:
\* the 3D branches of main() (mode < 0.5, 4.5 < mode < 5.5, mode > 5.5; at
\* exactly 5.5 pos3D stays originalPos) and, for 0.5 <= mode <= 4.5, the
\* start point and loop body IterateFractal picks.
Family(mode) ==
  IF mode < 500 THEN "Mandelbulb"
  ELSE IF mode > 4500
  THEN IF mode < 5500 THEN "Menger"
       ELSE IF mode > 5500 THEN "Sierpinski" ELSE "none"
  ELSE IF Abs(mode - Scale) < 100 THEN "Julia"
  ELSE IF mode < 2500 THEN "Mandelbrot"
  ELSE IF Abs(mode - 3 * Scale) < 100 THEN "Tricorn"
  ELSE "BurningShip"

\* The GPU runs the shader for the vertex at seed with the uniforms given.
Shade(seed, mode, uMaxIter) ==
  /\ ~kernel.ran
  /\ kernel' = [ seed |-> seed, mode |-> mode, cap |-> uMaxIter, ran |-> TRUE,
                 family |-> Family(mode),
                 out |-> VertexShader(seed, mode, uMaxIter, partU) ]
  /\ UNCHANGED << build, p, interactionMode, interactionModeRef, syncPending,
                  nav, g, phys, quadU, partU, uMode, uTime, loop, clock, dt,
                  haptics, landmarks, prevLandmarks, frameCount, clapFires,
                  media, paint, seen >>

\* ------------------------------------------------------------ kernel behaviours
\* One vertex of the seed cube (positions[i] = (Math.random() - 0.5) * 4.0),
\* the origin included, shaded for a blended mode 0..6 and an iteration-cap
\* uniform that is unset (0), negative, or a slider value and beyond.
KernelSeeds ==
  { [x |-> a, y |-> b, z |-> 0] : a, b \in {-1000, -500, 0, 250, 1000} }
KernelModes ==
  { 0, 500, 1000, 1300, 1500, 2000, 2500, 2700, 3000, 3500, 4000, 4500, 5000,
    5500, 6000 }
KernelCaps == { -5, 0, 10, 50, 100, 101, 500 }
InitKernelSpec == Mounted("P1", AppProps("MANDELBROT", TRUE, "NONE", 0, Scale))
NextKernel ==
  \E seed \in KernelSeeds, mode \in KernelModes, cap \in KernelCaps :
    Shade(seed, mode, cap)
SpecKernel == InitKernelSpec /\ [][NextKernel]_vars

\* C19 (as stated): for every seed of the seed volume, the origin included,
\* mode in [0, 6] and iteration cap in [10, 500], the kernel's output is
\* finite: no normalization of a zero vector, no logarithm of a
\* non-positive number.
C19_KernelFinite ==
  (kernel.ran /\ kernel.cap >= 10 /\ kernel.cap <= 500) => kernel.out.finite

\* uMode: 0=3D, 1=Julia, 2=Mandelbrot, 3=Tricorn, 4=BurningShip,
\* 5=MengerSponge, 6=Sierpinski
Families ==
  << "Mandelbulb", "Julia", "Mandelbrot", "Tricorn", "BurningShip", "Menger",
     "Sierpinski" >>
\* C23 (as stated): for every mode value in [0, 6] the kernel applies a
\* family (the vertex is never left at its seed position), and a value
\* strictly within 0.5 of index k gets family k.
C23_FamilyDispatch ==
  kernel.ran =>
    /\ kernel.family # "none"
    /\ \A k \in 0..6 :
         Abs(kernel.mode - k * Scale) < Scale \div 2
           => kernel.family = Families[k + 1]

\* The point the escape-time loop starts from and the constant it adds, for
\* the vertex and mode of the run, and the orbit after k loop bodies.
KernelPos ==
  [x |-> Quot(2 * kernel.seed.x * Scale, partU.uZoom) + partU.uPan.x,
   y |-> Quot(2 * kernel.seed.y * Scale, partU.uZoom) + partU.uPan.y]
KernelIsJulia == Abs(kernel.mode - Scale) < 100
KernelC == IF KernelIsJulia THEN JuliaC ELSE KernelPos
RECURSIVE Bodies(_, _)
Bodies(z, n) == IF n = 0 THEN z ELSE Bodies(IterStep(z, KernelC, kernel.mode), n - 1)
RECURSIVE Orbit(_)
Orbit(k) ==
  IF k < 10
  THEN Bodies(IF KernelIsJulia THEN KernelPos ELSE [x |-> 0, y |-> 0], k)
  ELSE LET z == Orbit(k - 10) IN IF z.x = z.x THEN Bodies(z, 10) ELSE z

\* C20: the escape-time loop ends after at most min(cap, 100) bodies, where a
\* configured cap of 0 or less counts as the default 20, which is also the
\* divisor of the normalized iteration count; the loop stops at the first
\* body whose result has |z|^2 > 4 and at no earlier one.
C20_EscapeLoopBounded ==
  (kernel.ran /\ kernel.mode >= 500 /\ kernel.mode <= 4500) =>
    LET cap == IF kernel.cap <= 0 THEN 20 ELSE kernel.cap
        most == IF cap < 100 THEN cap ELSE 100
        n == kernel.out.steps
    IN  /\ kernel.out.limit = cap
        /\ n <= most
        /\ kernel.out.z = Orbit(n)
        /\ \A j \in 1..(n - 1) : Dot2(Orbit(j)) <= 4 * Scale
        /\ n < most => Dot2(Orbit(n)) > 4 * Scale
\* An orbit that never escapes, shaded with the cap uniform unset: the loop
\* runs the default 20 bodies.
C20_Witness ==
  /\ kernel.ran /\ kernel.cap <= 0 /\ kernel.mode = 2 * Scale
  /\ kernel.out.steps = 20 /\ kernel.out.limit = 20
  /\ Dot2(kernel.out.z) <= 4 * Scale

\* --------------------------------------------------------------- colour palette
\* part_000, vertexShader: getPalette.  Angles are in thousandths of a radian.
Pi == 3142
\* sin(x): the argument is reduced to [0, 2 pi) and each half-wave is
\* 16 x (pi - x) / (5 pi^2 - 4 x (pi - x)), exact at 0, pi/6, pi/2 and pi.
HalfWave(x) ==
  LET xp == x * (Pi - x)
  IN  (16 * Scale * (xp \div 100)) \div ((5 * Pi * Pi - 4 * xp) \div 100)
Sin(x) ==
  LET r == x % (2 * Pi)
  IN  IF r <= Pi THEN HalfWave(r) ELSE -HalfWave(r - Pi)
\* pow(x, n) for the integer exponents of the palettes.
RECURSIVE PowN(_, _)
PowN(x, n) == IF n = 0 THEN Scale ELSE Mul(x, PowN(x, n - 1))
\* mix(a, b, w) = a * (1 - w) + b * w, per channel.
Mix(a, b, w) ==
  [ r |-> Mul(a.r, Scale - w) + Mul(b.r, w),
    g |-> Mul(a.g, Scale - w) + Mul(b.g, w),
    b |-> Mul(a.b, Scale - w) + Mul(b.b, w) ]
Rgb(x, y, z) == [r |-> x, g |-> y, b |-> z]
\* float pulse = 0.5 + 0.5 * sin(t * 3.0 + uTime * 0.1);
\* if (uVisualMode > 0.5) pulse = 0.5 + 0.5 * sin(t * 3.0);
\* time is u.uTime.value in units of 1/300 s, so uTime * 0.1 is time / 3.
Pulse(t, time, visual) ==
  IF visual > Scale \div 2
  THEN Scale \div 2 + Quot(Sin(3 * t), 2)
  ELSE Scale \div 2 + Quot(Sin(3 * t + Quot(time, 3)), 2)
\* vec3 getPalette(float t, float mode), reading the uniforms uTime and
\* uVisualMode.
GetPalette(t, mode, time, visual) ==
  LET pulse == Pulse(t, time, visual)
  IN  IF mode < 500
      THEN Mix(Mix(Rgb(20, 10, 100), Rgb(150, 50, 250), pulse),
               Rgb(300, 200, 500), Mul(PowN(pulse, 4), 400))
      ELSE IF mode < 1500
      THEN Mix(Mix(Rgb(100, 0, 0), Rgb(600, 100, 0), pulse),
               Rgb(1000, 700, 100), PowN(pulse, 3))
      ELSE IF mode < 2500
      THEN Mix(Mix(Rgb(0, 100, 200), Rgb(0, 400, 600), pulse),
               Rgb(600, 900, 1000), Mul(PowN(pulse, 5), 500))
      ELSE IF mode < 3500
      THEN Mix(Mix(Rgb(0, 100, 0), Rgb(100, 400, 100), pulse),
               Rgb(400, 1000, 400), Mul(PowN(pulse, 8), 800))
      ELSE Mix(Mix(Rgb(150, 0, 300), Rgb(0, 200, 500), pulse),
               Rgb(1000, 0, 800), Mul(PowN(pulse, 2), 500))

\* The particle material is drawn: the shader evaluates getPalette(t, id)
\* with the uniforms as the last frame left them.
Paint(t, id) ==
  /\ p.interactiveMode \/ build = "P2"
  /\ Len(paint) < MaxPaints
  /\ paint' = Append(paint, [ t |-> t, id |-> id, time |-> uTime,
                              visual |-> partU.uVisualMode,
                              color |-> GetPalette(t, id * Scale, uTime,
                                                   partU.uVisualMode) ])
  /\ UNCHANGED << build, p, interactionMode, interactionModeRef, syncPending,
                  nav, g, phys, quadU, partU, uMode, uTime, loop, clock, dt,
                  haptics, landmarks, prevLandmarks, frameCount, clapFires,
                  media, kernel, seen >>

\* ------------------------------------------------------------ palette function
\* getPalette evaluated between frames of part_001 and part_002 for a few
\* scalars t and every palette id, while the elapsed time advances and the
\* user toggles interactive mode.
PaintTs == { 0, 524, 2600 }
InitPaint ==
  \E b \in {"P1", "P2"} : Mounted(b, AppProps("MANDELBROT", TRUE, "NONE", 0, Scale))
NextPaint ==
  \/ frameCount < MaxPaintFrames /\ Animate(MaxDt)
  \/ build = "P2" /\ ToggleInteractive
  \/ \E t \in PaintTs, id \in 0..(PaletteCount - 1) : Paint(t, id)
SpecPaint == InitPaint /\ [][NextPaint]_vars

\* C21 (as stated): two evaluations of the palette function with the same t
\* and the same palette id return the same colour, whatever the elapsed time
\* and the visual-mode flag were, and every channel lies in [0, 1].
C21_PalettePure ==
  \A i, j \in 1..Len(paint) :
    /\ (paint[i].t = paint[j].t /\ paint[i].id = paint[j].id)
          => paint[i].color = paint[j].color
    /\ \A c \in {paint[i].color.r, paint[i].color.g, paint[i].color.b} :
          0 <= c /\ c <= Scale


\* --------------------------------------------------------- smoothing behaviours
\* Every revision, mounted in either rendering mode; a hand grabbing, pinching
\* or open; a preset started; frames of half the largest interval, so that two
\* of them cover the time of one frame of the largest interval.
SmoothPoses ==
  { << PoseFist(WristLow) >>, << PosePinch(WristLow) >>, << PosePalm(WristLow) >> }
InitSmooth ==
  \E b \in Builds, inter \in BOOLEAN :
    Mounted(b, AppProps("MANDELBROT", inter, "NONE", 0, Scale))
NextSmooth ==
  \/ frameCount < MaxSmoothFrames /\ Animate(MaxDt \div 2)
  \/ \E lm \in SmoothPoses : landmarks = NoHands /\ OnResults(lm)
  \/ \E a \in {"MANDELBROT_DIVE", "JULIA_MORPH"} :
       p.activeAnimation = "NONE" /\ frameCount = 0 /\ PlayAnimation(a)
SpecSmooth == InitSmooth /\ [][NextSmooth]_vars

\* The smoothed signals a frame result f publishes, and the targets it
\* smooths them toward.
Smoothed(f) ==
  LET u == IF build = "P2" \/ p.interactiveMode THEN f.partU ELSE f.quadU
  IN  [ mode |-> f.uMode, zoom |-> u.uZoom, panx |-> u.uPan.x, pany |-> u.uPan.y,
        attract |-> f.partU.uAttractStrength, repel |-> f.partU.uRepelStrength ]
SmoothTargets(f) ==
  [ mode |-> f.loop.targetMode, zoom |-> f.nav.zoom, panx |-> f.nav.pan.x,
    pany |-> f.nav.pan.y, attract |-> 0, repel |-> 0 ]

\* C22 (as stated): a frame of interval d followed by a second frame of
\* interval d leaves every smoothed signal whose target stayed fixed within
\* SmoothTol of where one frame of interval 2d from the same state leaves it.
C22_FrameRateIndependent ==
  [][ (IsFrame /\ 2 * dt' <= MaxDt) =>
        LET once == Frame(build, 2 * dt')
            twice == Frame(build, dt)'
            first == SmoothTargets([loop |-> loop', nav |-> nav'])
        IN  \A k \in DOMAIN first :
              ( /\ SmoothTargets(once)[k] = first[k]
                /\ SmoothTargets(twice)[k] = first[k] )
              => Abs(Smoothed(once)[k] - Smoothed(twice)[k]) <= SmoothTol ]_vars


\* ------------------------------------------------------------ haptic behaviours
\* part_001 in interactive mode: a hand relaxed, making a fist, punching
\* (a fist nearer the camera), showing victory, two fists smashing, or no
\* hand; any number of frames between two tracking callbacks.
HapticPoses ==
  { NoHands,
    << PoseNeutral(WristLow) >>,
    << PoseFist(WristLow) >>,
    << PoseFist(WristDeep) >>,
    << PoseVictory(WristLow) >>,
    << PoseFist(WristLow), PoseFist(WristSmash) >> }
InitHaptic == Mounted("P1", AppProps("MANDELBROT", TRUE, "NONE", 0, Scale))
NextHaptic ==
  \/ frameCount < MaxHapticFrames /\ Animate(MaxDt)
  \/ \E lm \in HapticPoses : lm # landmarks /\ OnResults(lm)
SpecHaptic == InitHaptic /\ [][NextHaptic]_vars

\* C27 (as stated): a frame fires the fist, punch, victory or smash haptic
\* exactly when it reads the gesture as true (interactive mode, hand
\* tracked) and the frame before it did not read it as true: it read it as
\* false or had no hand tracked.
C27_EdgeHaptics ==
  [][ IsFrame =>
        LET read == [ fist |-> g.isFist, punch |-> g.isPunching,
                      victory |-> g.isVictory, smash |-> g.isTwoHandSmash ]
        IN  \A k \in DOMAIN read :
              (k \in haptics') <=> (GestureGate /\ read[k] /\ ~seen[k]) ]_vars


\* C29 (as stated): a frame that reads victory as true (interactive mode,
\* hand tracked) publishes the elapsed time of the frame before it; every
\* other frame publishes a larger one.
C29_VictoryFreezesTime ==
  [][ IsFrame =>
        IF GestureGate /\ g.isVictory THEN uTime' = uTime ELSE uTime' > uTime ]_vars

=============================================================================
